---- MODULE Spec2Model ----
(***************************************************************************)
(* shortsAI: script pages -> images, narration, page clips, master         *)
(* timeline with background music.                                         *)
(*                                                                         *)
(* Units: every time is an integer number of milliseconds; the speech      *)
(* speed multiplier is an integer number of tenths (10 = 1.0x).  A text is *)
(* a sequence of characters, each a string (a non-ASCII character is       *)
(* written by its code point, "U+3002").                                   *)
(*                                                                         *)
(* Several specifications share the module:                                *)
(*   Spec          main's page loop followed by generate_video             *)
(*   SpecParse     _parse_and_create_colored_text applied to a caption     *)
(*   SpecEstimate  estimate_audio_duration applied to a text               *)
(*   SpecCompose   _create_page_video applied to a page record             *)
(*   SpecImage     generate_image, with the replicate polling loop         *)
(*   SpecUpload    _resumable_upload's retry loop                          *)
(*   SpecMain      main from the temp directory to the finally clause      *)
(*   SpecLayout    the first page's image geometry over canvas sizes       *)
(* The MoviePy calls (set_start, subclip, CompositeAudioClip, ...) are     *)
(* modelled by what MoviePy 1.x computes for start, duration and end.      *)
(***************************************************************************)
EXTENDS Integers, Sequences, FiniteSets, TLC

VARIABLES
    est,             \* SpecEstimate: one call of estimate_audio_duration
    par,             \* SpecParse: one call of _parse_and_create_colored_text
    cmp,             \* SpecCompose: one call of _create_page_video
    img,             \* SpecImage: one call of generate_image
    upl,             \* SpecUpload: one call of _resumable_upload
    run,             \* SpecMain: one run of main, component by component
    lay,             \* SpecLayout: the first page's image on one canvas
    pc,              \* where the run of main is
    config,          \* the loaded configuration and the bgm file it names
    pages,           \* parse_simple_script's result: the page texts
    wav,             \* temp_dir/page_NN.wav, by page
    pages_data,      \* main: the page records built so far
    calls,           \* main: the calls issued and returned so far, in order
    total_duration,  \* main: running sum of page durations
    gv_index,        \* generate_video: 1-based index of the next page
    page_clip_made,  \* generate_video: by page, whether _create_page_video
                     \* returned a clip
    video_clips,     \* generate_video: page clips placed so far
    audio_clips,     \* generate_video: narration clips placed so far
    current_time,    \* generate_video: the timeline cursor
    final_audio,     \* generate_video: what the mixer returned
    write,           \* generate_video: "none", "done" or "failed"
    success,         \* generate_video's return value ("pending" before)
    handles          \* generate_video: the media handles open now

gvVars == <<gv_index, page_clip_made, video_clips, audio_clips, current_time, final_audio, write,
            success, handles>>

Max(a, b) == IF a >= b THEN a ELSE b
Min(a, b) == IF a <= b THEN a ELSE b

RECURSIVE Flatten(_)
Flatten(toks) ==
    IF toks = <<>> THEN <<>> ELSE Head(toks) \o Flatten(Tail(toks))

\* All sequences over S of length 0..n.
SeqsUpTo(S, n) == UNION {[1..k -> S] : k \in 0..n}

\* Characters str.strip() removes.
Whitespace == {" ", "\n", "\t"}

\* `not text.strip()`
IsBlank(text) == \A k \in 1..Len(text) : text[k] \in Whitespace

\* text.replace(ch, '') for a one-character ch
Remove(text, ch) == SelectSeq(text, LAMBDA c : c # ch)

\* text.count(ch)
Count(text, ch) == Cardinality({k \in 1..Len(text) : text[k] = ch})

(***************************************************************************)
(* VoiceSynthesizer.estimate_audio_duration                                *)
(***************************************************************************)
EmptyTextDuration == 500
PerCharMs == 400
PerPauseMs == 300
MinEstimateMs == 1000
MaxEstimateMs == 10000

\* The four pause characters of line 226, written by code point: the
\* ideographic comma and full stop, the full-width ! and ?.
PauseChars == <<"U+3001", "U+3002", "U+FF01", "U+FF1F">>

\* max(1.0, min(base_duration + pause_duration, 10.0)) with the clamp left out
ClampEstimateNone(d) == d

\* max(1.0, min(base_duration + pause_duration, 10.0))
ClampEstimate(d) == Max(MinEstimateMs, Min(d, MaxEstimateMs))

\* total_duration / self.speed_scale (speed in tenths; the quotient is exact
\* for the speeds of SpeedScales)
AdjustForSpeed(total, speed_scale) ==
    (total * 10) \div speed_scale

estimate_audio_duration(text, speed_scale) ==
    IF IsBlank(text)
    THEN EmptyTextDuration
    ELSE LET char_count == Len(Remove(Remove(text, " "), "\n"))
             base_duration == char_count * PerCharMs
             pause_count == Count(text, PauseChars[1]) + Count(text, PauseChars[2])
                            + Count(text, PauseChars[3]) + Count(text, PauseChars[4])
             pause_duration == pause_count * PerPauseMs
             total == ClampEstimate(base_duration + pause_duration)
         IN  AdjustForSpeed(total, speed_scale)

\* Speed multipliers tried, in tenths.  A clamped total is a multiple of
\* 100 ms, and each of these divides 1000, so the quotient is exact.
SpeedScales == {5, 10, 20, 25}

LongRun == <<"a", "a", "a", "a", "a", "a", "a", "a", "a", "a">>
EstTokens == {<<"a">>, <<" ">>, <<"\n">>, <<"\t">>, <<"U+3002">>, <<"U+FF1F">>, LongRun}
MaxEstTokens == 3
EstTexts == {Flatten(s) : s \in SeqsUpTo(EstTokens, MaxEstTokens)}

EstIdle == [pc |-> "idle", text |-> <<>>, speed_scale |-> 10, result |-> 0]

EstInit ==
    est \in {[pc |-> "call", text |-> t, speed_scale |-> s, result |-> 0] :
             t \in EstTexts, s \in SpeedScales}

Estimate ==
    /\ est.pc = "call"
    /\ est' = [est EXCEPT !.pc = "returned",
                          !.result = estimate_audio_duration(est.text, est.speed_scale)]
    /\ UNCHANGED <<par, cmp, img, upl, run, lay, pc, config, pages, wav, pages_data, total_duration,
                   calls>>
    /\ UNCHANGED gvVars

(***************************************************************************)
(* VideoGenerator._parse_and_create_colored_text                           *)
(* The marker regex of lines 452 and 473 is computed as re computes it:    *)
(* leftmost match first, scanning resumed after the end of each match.     *)
(***************************************************************************)
NormalColor == "#000000"
HighlightColor == "#FF0000"

\* '##' in text
HasMarker(text) ==
    \E k \in 1..(Len(text) - 1) : text[k] = "#" /\ text[k + 1] = "#"

\* First index >= from holding ch, 0 when there is none.
FirstIndex(text, ch, from) ==
    LET hits == {j \in from..Len(text) : text[j] = ch}
    IN  IF hits = {} THEN 0 ELSE CHOOSE j \in hits : \A h \in hits : j <= h

\* The regex with (.*?) for the content: closes at the first '##' after the
\* opening marker, whatever lies between.
SpanEndAnyContent(text, i) ==
    IF i + 1 <= Len(text) /\ text[i] = "#" /\ text[i + 1] = "#"
    THEN LET closes == {j \in (i + 2)..(Len(text) - 1) :
                            text[j] = "#" /\ text[j + 1] = "#"}
         IN  IF closes = {} THEN 0
             ELSE (CHOOSE j \in closes : \A h \in closes : j <= h) + 1
    ELSE 0

\* r'##([^#]*)##' tried at index i (1-based): the index of the last character
\* of the match, 0 when the regex does not match at i.  [^#]* takes every
\* character up to the next '#', and the closing '##' must start there.
SpanEnd(text, i) ==
    IF i + 1 <= Len(text) /\ text[i] = "#" /\ text[i + 1] = "#"
    THEN LET j == FirstIndex(text, "#", i + 2)
         IN  IF j # 0 /\ j + 1 <= Len(text) /\ text[j + 1] = "#" THEN j + 1 ELSE 0
    ELSE 0

\* list(re.finditer(r'##([^#]*)##', text)), scanning from index i: each match
\* as [start, stop], the indices of its first and last character.
RECURSIVE FindIter(_, _)
FindIter(text, i) ==
    IF i > Len(text) THEN <<>>
    ELSE IF SpanEnd(text, i) # 0
         THEN <<[start |-> i, stop |-> SpanEnd(text, i)]>>
              \o FindIter(text, SpanEnd(text, i) + 1)
         ELSE FindIter(text, i + 1)

\* m.group(1)
Group1(text, m) == SubSeq(text, m.start + 2, m.stop - 2)

\* lambda m: ' ' * len(m.group(1))
BlankSpan(content) == [k \in 1..Len(content) |-> " "]

\* re.sub(r'##([^#]*)##', lambda m: ' ' * len(m.group(1)), text), from index i
RECURSIVE ReSub(_, _)
ReSub(text, i) ==
    IF i > Len(text) THEN <<>>
    ELSE IF SpanEnd(text, i) # 0
         THEN BlankSpan(Group1(text, [start |-> i, stop |-> SpanEnd(text, i)]))
              \o ReSub(text, SpanEnd(text, i) + 1)
         ELSE <<text[i]>> \o ReSub(text, i + 1)

\* The red text of lines 476-492: the text with every character but '\n'
\* blanked, then each match's content written back from match.start() + 2.
RedText(text, red_matches) ==
    [k \in 1..Len(text) |->
        IF \E n \in 1..Len(red_matches) :
               /\ red_matches[n].start + 2 <= k
               /\ k < red_matches[n].start + 2
                      + Len(Group1(text, red_matches[n]))
        THEN text[k]
        ELSE IF text[k] # "\n" THEN " " ELSE "\n"]

\* The red clip made for every text that has a match.
RedClipWantedAlways(red_text_str) == TRUE

\* if red_text_str.strip():
RedClipWanted(red_text_str) == ~IsBlank(red_text_str)

\* The List[TextClip] returned, each clip as [text, color], with the two
\* texts it was made from.
parse_and_create_colored_text(text, normal_color, highlight_color) ==
    IF ~HasMarker(text)
    THEN [normal_text |-> text, red_matches |-> <<>>, red_text_str |-> <<>>,
          clips |-> <<[text |-> text, color |-> normal_color]>>]
    ELSE LET normal_text == ReSub(text, 1)
             normal_clip == [text |-> normal_text, color |-> normal_color]
             red_matches == FindIter(text, 1)
             red_text_str == IF red_matches # <<>>
                             THEN RedText(text, red_matches) ELSE <<>>
             red_clip == [text |-> red_text_str, color |-> highlight_color]
         IN  [normal_text |-> normal_text,
              red_matches |-> red_matches,
              red_text_str |-> red_text_str,
              clips |-> IF red_matches # <<>> /\ RedClipWanted(red_text_str)
                        THEN <<normal_clip, red_clip>>
                        ELSE <<normal_clip>>]

ParTokens == {<<"a">>, <<"b">>, <<" ">>, <<"\n">>, <<"#">>, <<"#", "#">>}
MaxParTokens == 6
ParTexts == {Flatten(s) : s \in SeqsUpTo(ParTokens, MaxParTokens)}

NoParse == [normal_text |-> <<>>, red_matches |-> <<>>, red_text_str |-> <<>>,
            clips |-> <<>>]
ParIdle == [pc |-> "idle", text |-> <<>>, out |-> NoParse]

ParInit == par \in {[pc |-> "call", text |-> t, out |-> NoParse] : t \in ParTexts}

Parse ==
    /\ par.pc = "call"
    /\ par' = [par EXCEPT !.pc = "returned",
                          !.out = parse_and_create_colored_text(
                                      par.text, NormalColor, HighlightColor)]
    /\ UNCHANGED <<est, cmp, img, upl, run, lay, pc, config, pages, wav, pages_data, total_duration,
                   calls>>
    /\ UNCHANGED gvVars

(***************************************************************************)
(* main: one page of the loop of lines 153-195                             *)
(***************************************************************************)
SilentFallbackMs == 3000
SilentEmptyTextMs == 1000
UnreadableWavDefaultMs == 3000
DefaultPageDurationMs == 3000

NoFile == [exists |-> FALSE, readable |-> FALSE, duration |-> 0]

\* What the speech server and the file system do for one page:
\*   ok            audio written and measured, `duration` ms long
\*   unmeasurable  audio written, wave.open raises on it; the video library
\*                 either cannot open it either or reads `duration` ms
\*   silent        query or synthesis failed, the silent file was written
\*   failed        query or synthesis failed, writing the silent file raised
MeasuredDurations == {2000}
UnmeasuredDurations == {5000}
SynthOutcomes ==
    {[kind |-> "ok", readable |-> TRUE, duration |-> d] : d \in MeasuredDurations}
    \cup {[kind |-> "unmeasurable", readable |-> r, duration |-> d] :
             r \in BOOLEAN, d \in UnmeasuredDurations}
    \cup {[kind |-> "silent", readable |-> TRUE, duration |-> SilentFallbackMs],
          [kind |-> "failed", readable |-> FALSE, duration |-> 0]}

\* _create_silent_audio(output_path, duration) under outcome o
create_silent_audio(duration, o) ==
    IF o.kind = "failed"
    THEN [success |-> FALSE, duration |-> duration, file |-> NoFile]
    ELSE [success |-> TRUE, duration |-> duration,
          file |-> [exists |-> TRUE, readable |-> TRUE, duration |-> duration]]

\* _get_audio_duration(wav_path) under outcome o
get_audio_duration(o) ==
    IF o.kind = "unmeasurable" THEN UnreadableWavDefaultMs ELSE o.duration

\* synthesize_voice(text, output_path) under outcome o:
\* (success, duration) and the file left at output_path
synthesize_voice(text, o) ==
    IF IsBlank(text)
    THEN create_silent_audio(SilentEmptyTextMs, o)
    ELSE IF o.kind \in {"silent", "failed"}
         THEN create_silent_audio(SilentFallbackMs, o)
         ELSE [success |-> TRUE, duration |-> get_audio_duration(o),
               file |-> [exists |-> TRUE, readable |-> o.readable,
                         duration |-> o.duration]]

\* lines 177-181 with the padding taken for the page's whole length
PageDurationPaddingOnly(duration, cfg) ==
    IF cfg.duration_mode = "voice"
    THEN cfg.padding_seconds * 2
    ELSE duration

\* lines 177-181: page_duration
PageDuration(duration, cfg) ==
    IF cfg.duration_mode = "voice"
    THEN duration + (cfg.padding_seconds * 2)
    ELSE duration

\* VideoGenerator.create_page_data (the fields the timeline reads)
create_page_data(text, audio_path, duration, page_number) ==
    [text |-> text, audio_path |-> audio_path, duration |-> duration,
     page_number |-> page_number]

\* The script: page k's text.  Two texts alternate.
ScriptText(k) ==
    IF k % 2 = 1 THEN <<"a">> ELSE <<"a", "b", "c", "U+3002">>

MaxPages == 3
PaddingChoices == {0, 500}
PipelineSpeeds == {10, 20}
BgmDurations == {2000, 4000, 30000}
BgmFiles ==
    {[exists |-> FALSE, readable |-> FALSE, duration |-> 0],
     [exists |-> TRUE, readable |-> FALSE, duration |-> 0]}
    \cup {[exists |-> TRUE, readable |-> TRUE, duration |-> d] : d \in BgmDurations}

NoAudio == [made |-> FALSE]

PipelineIdle ==
    /\ pc = "idle"
    /\ config = [duration_mode |-> "none", padding_seconds |-> 0,
                 speed_scale |-> 10, bgm |-> NoFile, moviepy |-> TRUE]
    /\ pages = <<>>
    /\ wav = <<>>
    /\ pages_data = <<>>
    /\ total_duration = 0
    /\ gv_index = 0
    /\ page_clip_made = <<>>
    /\ video_clips = <<>>
    /\ audio_clips = <<>>
    /\ current_time = 0
    /\ final_audio = NoAudio
    /\ write = "none"
    /\ success = "pending"
    /\ calls = <<>>
    /\ handles = {}

\* main up to line 151: the configuration is loaded, the script is parsed
\* (at least one page, lines 58-60), nothing is processed yet.
PipelineInit ==
    /\ pc = "main_loop"
    /\ config \in [duration_mode : {"voice", "none"},
                   padding_seconds : PaddingChoices,
                   speed_scale : PipelineSpeeds,
                   bgm : BgmFiles,
                   \* MOVIEPY_AVAILABLE, video_generator.py lines 12-22
                   moviepy : BOOLEAN]
    /\ pages \in {[k \in 1..n |-> ScriptText(k)] : n \in 1..MaxPages}
    /\ wav = <<>>
    /\ pages_data = <<>>
    /\ total_duration = 0
    /\ gv_index = 0
    /\ page_clip_made = <<>>
    /\ video_clips = <<>>
    /\ audio_clips = <<>>
    /\ current_time = 0
    /\ final_audio = NoAudio
    /\ write = "none"
    /\ success = "pending"
    /\ calls = <<>>
    /\ handles = {}

\* An entry of the record of calls: `op` was called for page `page`, or
\* returned (with `result`, which for synthesize_voice is the outcome's kind).
CallEvent(op, page, event, result) ==
    [op |-> op, page |-> page, event |-> event, result |-> result]

\* The page's calls with the speech request issued before the image came back
PageCallsOverlapped(i, o) ==
    <<CallEvent("translate_text", i, "call", ""),
      CallEvent("translate_text", i, "return", ""),
      CallEvent("generate_image", i, "call", ""),
      CallEvent("synthesize_voice", i, "call", ""),
      CallEvent("generate_image", i, "return", ""),
      CallEvent("synthesize_voice", i, "return", o.kind)>>

\* The calls of one iteration, lines 160, 164 and 171, each a plain
\* (blocking) function call.
PageCalls(i, o) ==
    <<CallEvent("translate_text", i, "call", ""),
      CallEvent("translate_text", i, "return", ""),
      CallEvent("generate_image", i, "call", ""),
      CallEvent("generate_image", i, "return", ""),
      CallEvent("synthesize_voice", i, "call", ""),
      CallEvent("synthesize_voice", i, "return", o.kind)>>

\* One iteration of main's loop, lines 153-195.
ProcessPage ==
    /\ pc = "main_loop"
    /\ Len(pages_data) < Len(pages)
    /\ \E o \in SynthOutcomes :
         LET i == Len(pages_data) + 1
             page_text == pages[i]
             synth == synthesize_voice(page_text, o)
             duration == IF ~synth.success
                         THEN estimate_audio_duration(page_text, config.speed_scale)
                         ELSE synth.duration
             page_duration == PageDuration(duration, config)
         IN  /\ wav' = Append(wav, synth.file)
             /\ total_duration' = total_duration + page_duration
             /\ pages_data' = Append(pages_data,
                                create_page_data(page_text, i, page_duration, i))
             /\ calls' = calls \o PageCalls(i, o)
    /\ UNCHANGED <<est, par, cmp, img, upl, run, lay, pc, config, pages>>
    /\ UNCHANGED gvVars

\* the placeholder reported as written whatever happened
create_placeholder_video_unchecked(written) == TRUE

\* _create_placeholder_video: True once the placeholder text is written at
\* output_path
create_placeholder_video(written) == written

(***************************************************************************)
(* VideoGenerator.generate_video                                           *)
(***************************************************************************)
\* main line 202 calls generate_video; lines 83-85 initialise its locals.
CallGenerateVideo ==
    /\ pc = "main_loop"
    /\ Len(pages_data) = Len(pages)
    /\ config.moviepy
    /\ pc' = "gv_loop"
    /\ gv_index' = 1
    /\ page_clip_made' = <<>>
    /\ video_clips' = <<>>
    /\ audio_clips' = <<>>
    /\ current_time' = 0
    /\ calls' = Append(calls, CallEvent("generate_video", 0, "call", ""))
    /\ UNCHANGED <<est, par, cmp, img, upl, run, lay, handles,
                   config, pages, wav, pages_data, total_duration,
                   final_audio, write, success>>

\* main line 202 calls generate_video without MoviePy: lines 78-80 return
\* what _create_placeholder_video returns, before any local is set up.
GvPlaceholder ==
    /\ pc = "main_loop"
    /\ Len(pages_data) = Len(pages)
    /\ ~config.moviepy
    /\ pc' = "gv_returned"
    /\ \E written \in BOOLEAN :
          /\ success' = create_placeholder_video(written)
          /\ write' = IF written THEN "placeholder" ELSE "none"
    /\ calls' = calls \o <<CallEvent("generate_video", 0, "call", ""),
                            CallEvent("generate_video", 0, "return",
                                      IF success' = TRUE THEN "True" ELSE "False")>>
    /\ UNCHANGED <<est, par, cmp, img, upl, run, lay, handles,
                   config, pages, wav, pages_data, total_duration,
                   gv_index, page_clip_made, video_clips, audio_clips, current_time,
                   final_audio>>

\* _create_page_video reading a wrong key: the clip gets the default duration
create_page_video_default_duration(page_data, start_time) ==
    [page |-> page_data.page_number, start |-> start_time,
     duration |-> DefaultPageDurationMs]

\* _create_page_video, lines 148 and 174-177, when nothing raises: the clip's
\* page, start and duration
create_page_video(page_data, start_time) ==
    [page |-> page_data.page_number, start |-> start_time,
     duration |-> page_data.duration]

\* The narration clip left at its default start
narration_clip_unplaced(page_data, file, start_time) ==
    [page |-> page_data.page_number, start |-> 0, duration |-> file.duration]

\* AudioFileClip(page_data['audio_path']).set_start(current_time), line 97
narration_clip(page_data, file, start_time) ==
    [page |-> page_data.page_number, start |-> start_time,
     duration |-> file.duration]

\* A page without a clip costing the clips placed before it
append_page_clip_or_restart(clips, composed, page_clip) ==
    IF composed THEN Append(clips, page_clip) ELSE <<>>

\* lines 90-91: `if page_clip: video_clips.append(page_clip)`
append_page_clip(clips, composed, page_clip) ==
    IF composed THEN Append(clips, page_clip) ELSE clips

\* A media handle: the page clip or the narration reader of a page, or the
\* bgm reader (page 0).
Handle(kind, page) == [kind |-> kind, page |-> page]

\* One iteration of the loop of lines 87-103.  _create_page_video returns a
\* clip or, when composing raises (lines 179-181), None; AudioFileClip raises
\* on a file it cannot read, which ends generate_video at lines 141-143.
GvPage ==
    /\ pc = "gv_loop"
    /\ gv_index <= Len(pages_data)
    /\ LET page_data == pages_data[gv_index]
           file == wav[page_data.audio_path]
       IN  /\ \E composed \in BOOLEAN :
                /\ page_clip_made' = Append(page_clip_made, composed)
                /\ video_clips' = append_page_clip(
                                      video_clips, composed,
                                      create_page_video(page_data, current_time))
           /\ handles' = handles
                  \cup (IF Len(video_clips') > Len(video_clips)
                        THEN {Handle("page", page_data.page_number)} ELSE {})
                  \cup (IF file.exists /\ file.readable
                        THEN {Handle("narration", page_data.page_number)} ELSE {})
           /\ IF file.exists /\ ~file.readable
              THEN /\ pc' = "gv_returned"
                   /\ success' = FALSE
                   /\ calls' = Append(calls,
                                  CallEvent("generate_video", 0, "return", "False"))
                   /\ UNCHANGED <<audio_clips, current_time, gv_index>>
              ELSE /\ audio_clips' = IF file.exists
                                     THEN Append(audio_clips,
                                            narration_clip(page_data, file, current_time))
                                     ELSE audio_clips
                   /\ current_time' = current_time + page_data.duration
                   /\ gv_index' = gv_index + 1
                   /\ UNCHANGED <<pc, success, calls>>
    /\ UNCHANGED <<est, par, cmp, img, upl, run, lay,
                   config, pages, wav, pages_data, total_duration,
                   final_audio, write>>

(***************************************************************************)
(* VideoGenerator._create_final_audio_with_bgm                             *)
(***************************************************************************)
BgmLeadInMs == 3000

RECURSIVE MaxEnd(_)
\* max(c.end for c in clips), what CompositeAudioClip takes as its duration
MaxEnd(clips) ==
    IF clips = <<>> THEN 0
    ELSE Max(Head(clips).start + Head(clips).duration, MaxEnd(Tail(clips)))

\* the bgm taken from its first sample
TrimLeadInNever(d) == d

\* lines 551-552: bgm_audio.subclip(3) when longer than 3 s
TrimLeadIn(d) == IF d > BgmLeadInMs THEN d - BgmLeadInMs ELSE d

\* line 559 without the extra copy
LoopsNeededFloor(total, d) == total \div d

\* line 559: int(total_duration / bgm_audio.duration) + 1
LoopsNeeded(total, d) == (total \div d) + 1

\* clip.subclip(t_start, t_end).duration
Subclip(t_start, t_end) == t_end - t_start

\* lines 555-561 with a long source left untruncated
FitBgmNoTruncate(d, total) ==
    IF d < total
    THEN [source |-> d, loops |-> LoopsNeeded(total, d), duration |-> Subclip(0, total)]
    ELSE [source |-> d, loops |-> 1, duration |-> d]

\* lines 555-561: the bgm fitted to total_duration, as [source, loops, duration]
FitBgm(d, total) ==
    IF d > total
    THEN [source |-> d, loops |-> 1, duration |-> Subclip(0, total)]
    ELSE IF d < total
         THEN [source |-> d, loops |-> LoopsNeeded(total, d),
               duration |-> Subclip(0, total)]
         ELSE [source |-> d, loops |-> 1, duration |-> d]

\* The mixer letting a bgm failure out
create_final_audio_bgm_required(clips, total, bgm) ==
    IF bgm.exists /\ bgm.readable
    THEN [made |-> TRUE, raised |-> FALSE, narration |-> clips,
          total_duration |-> total, bgm |-> TRUE,
          fit |-> FitBgm(TrimLeadIn(bgm.duration), total),
          duration |-> Max(MaxEnd(clips),
                           FitBgm(TrimLeadIn(bgm.duration), total).duration)]
    ELSE [made |-> FALSE, raised |-> TRUE]

\* _create_final_audio_with_bgm(audio_clips, total_duration): the master
\* track, its narration clips, whether the bgm is in it and how it was fitted
create_final_audio_with_bgm(clips, total, bgm) ==
    IF bgm.exists /\ bgm.readable
    THEN [made |-> TRUE, raised |-> FALSE, narration |-> clips,
          total_duration |-> total, bgm |-> TRUE,
          fit |-> FitBgm(TrimLeadIn(bgm.duration), total),
          duration |-> Max(MaxEnd(clips),
                           FitBgm(TrimLeadIn(bgm.duration), total).duration)]
    ELSE [made |-> TRUE, raised |-> FALSE, narration |-> clips,
          total_duration |-> total, bgm |-> FALSE,
          fit |-> [source |-> 0, loops |-> 0, duration |-> 0],
          duration |-> MaxEnd(clips)]

\* The test of line 105 letting an empty timeline through
no_video_clips_ignored(clips) == FALSE

\* line 105: `if not video_clips`
no_video_clips(clips) == clips = <<>>

\* The test of line 113 letting an empty narration list through
narration_present_always(clips) == TRUE

\* line 113: `if audio_clips`
narration_present(clips) == clips # <<>>

\* The handles of the clips of a list.
ClipHandles(clips, kind) == {Handle(kind, clips[k].page) : k \in 1..Len(clips)}

\* lines 134-136: close() on every clip of video_clips + audio_clips
close_clips(open, v_clips, a_clips) ==
    open \ (ClipHandles(v_clips, "page") \cup ClipHandles(a_clips, "narration"))

\* Lines 105-143 after the loop: no clip, return False; else composite, mix
\* when there is narration (AudioFileClip opens the bgm file when it can),
\* write the file (which may raise); after the write close final_video and
\* the clips of both lists, return True.  final_video.close() reaches the bgm
\* reader or not, as the MoviePy release has it.  The except branch of lines
\* 141-143 and the return of line 107 close nothing.
GvFinish ==
    /\ pc = "gv_loop"
    /\ gv_index > Len(pages_data)
    /\ pc' = "gv_returned"
    /\ IF no_video_clips(video_clips)
       THEN /\ success' = FALSE
            /\ UNCHANGED <<final_audio, write, handles>>
       ELSE LET mix == IF narration_present(audio_clips)
                       THEN create_final_audio_with_bgm(audio_clips, current_time,
                                                        config.bgm)
                       ELSE NoAudio
                opened == IF narration_present(audio_clips) /\ config.bgm.exists
                             /\ config.bgm.readable
                          THEN handles \cup {Handle("bgm", 0)} ELSE handles
            IN  IF narration_present(audio_clips) /\ mix.raised
                THEN /\ success' = FALSE
                     /\ UNCHANGED <<final_audio, write, handles>>
                ELSE /\ final_audio' = mix
                     /\ \E written \in BOOLEAN :
                          /\ write' = IF written THEN "done" ELSE "failed"
                          /\ success' = written
                          /\ IF written
                             THEN \E released \in SUBSET {Handle("bgm", 0)} :
                                    handles' = close_clips(opened, video_clips,
                                                           audio_clips) \ released
                             ELSE handles' = opened
    /\ calls' = Append(calls, CallEvent("generate_video", 0, "return",
                                        IF success' = TRUE THEN "True" ELSE "False"))
    /\ UNCHANGED <<est, par, cmp, img, upl, run, lay,
                   config, pages, wav, pages_data, total_duration,
                   gv_index, page_clip_made, video_clips, audio_clips,
                   current_time>>

(***************************************************************************)
(* VideoGenerator._create_page_video: the layers of one page clip          *)
(***************************************************************************)
Width == 1080
Height == 1920
FirstPageFontSize == 60
CaptionFontSize == 48
FallbackFontSize == 32
SquareSize == 1300
CropHeight == 900

\* int(n * p / 100) for the percentages of lines 327-405
Percent(n, p) == (n * p) \div 100

\* A layer of a page clip.  `pan` tells a position that moves with time.
Layer(kind, y, w, h, pan, text, color, font_size, duration) ==
    [kind |-> kind, y |-> y, w |-> w, h |-> h, pan |-> pan, text |-> text,
     color |-> color, font_size |-> font_size, duration |-> duration]

\* What a helper returns when it returns None.
NoClip == Layer("none", 0, 0, 0, FALSE, <<>>, "", 0, 0)

\* _create_default_background(duration): the white full-canvas image
create_default_background(duration) ==
    Layer("background", 0, Width, Height, FALSE, <<>>, "white", 0, duration)

\* What is at background_path:
\*   absent      the record has no path
\*   missing     the path names no file
\*   unloadable  the file is there, ImageClip raises on it
\*   ok          the file loads
ImageStates == {"absent", "missing", "unloadable", "ok"}

\* int(x) of a Python float x = n / d: truncation towards zero
TruncDiv(n, d) == IF n >= 0 THEN n \div d ELSE -((-n) \div d)

\* line 327: target_size = int(self.width * 0.55).  0.55 * width is never
\* within rounding distance below an integer, so the floor is exact.
first_page_image_side(width) == (width * 55) \div 100

\* the image put with its top edge on the anchor line
first_page_image_top_on_anchor(width, height, hair) ==
    TruncDiv(70 * height - hair, 100)

\* line 330: int(self.height * 0.7 - target_size / 2), computed in hundredths
\* of a pixel.  The binary 0.7 lies below 7/10, so the floating product can
\* come out the last bit below the exact one (170 * 0.7 is
\* 118.99999999999999); hair is 1 when it does and 0 when it does not.
first_page_image_top(width, height, hair) ==
    TruncDiv(70 * height - 50 * first_page_image_side(width) - hair, 100)

\* The image helper letting an unloadable file through
create_page_specific_image_clip_unchecked(image, duration, page_number) ==
    Layer("image", Percent(Height, 10), SquareSize, CropHeight, TRUE, <<>>, "",
          0, duration)

\* _create_page_specific_image_clip(image_path, duration, page_number)
create_page_specific_image_clip(image, duration, page_number) ==
    IF image = "unloadable"
    THEN NoClip
    ELSE IF page_number = 1
         THEN LET target_size == first_page_image_side(Width)
              IN  Layer("image",
                        \* 1920 * 0.7 is 1344.0 exactly
                        first_page_image_top(Width, Height, 0),
                        target_size, target_size, FALSE, <<>>, "", 0, duration)
         ELSE Layer("image", Percent(Height, 10), SquareSize, CropHeight, TRUE,
                    <<>>, "", 0, duration)

\* What TextClip does in this environment:
\*   ok            every TextClip is rendered
\*   styled_fails  a TextClip given font and bg_color raises (lines 461, 493,
\*                 517, 629); the plain one of line 406 is rendered
\*   all_fail      every TextClip raises
TextClipOutcomes == {"ok", "styled_fails", "all_fail"}

\* _parse_and_create_colored_text with its positions, sizes and its except
\* branch: [raised, parsed, clips].  The fallback TextClip of line 517 is
\* styled like the ones of the try block, so it raises whenever they do.
colored_text_clips(text, font_size, normal_color, highlight_color, text_y_position, duration, textclip) ==
    IF textclip = "ok"
    THEN LET out == parse_and_create_colored_text(text, normal_color,
                                                  highlight_color)
         IN  [raised |-> FALSE, parsed |-> text,
              clips |-> [k \in 1..Len(out.clips) |->
                           Layer("caption", text_y_position, 0, 0, FALSE,
                                 out.clips[k].text, out.clips[k].color,
                                 font_size, duration)]]
    ELSE [raised |-> TRUE, parsed |-> text, clips |-> <<>>]

\* The page-1 helper handing the caption over as written
create_text_clips_with_equals(text, font_size, color, text_y_position, duration, textclip) ==
    colored_text_clips(text, FirstPageFontSize, color, HighlightColor,
                       text_y_position, duration, textclip)

\* _create_text_clips_with_highlights: '=' removed, then the '##' parser at
\* size 60; its own fallback TextClip (line 629) is styled too.
create_text_clips_with_highlights(text, font_size, color, text_y_position, duration, textclip) ==
    LET processed_text == Remove(text, "=")
    IN  colored_text_clips(processed_text, FirstPageFontSize, color,
                           HighlightColor, text_y_position, duration, textclip)

\* _create_positioned_text_clips(text, duration, page_data): [parsed, clips]
create_positioned_text_clips(text, duration, page_data, textclip) ==
    LET font_size == CaptionFontSize
        color == NormalColor
        page_number == page_data.page_number
        text_y_position == IF page_number = 1 THEN Percent(Height, 15)
                           ELSE Percent(Height, 65)
        inner == IF page_number = 1
                 THEN create_text_clips_with_highlights(
                          text, font_size, color, text_y_position, duration,
                          textclip)
                 ELSE colored_text_clips(text, font_size, color, HighlightColor,
                                         text_y_position, duration, textclip)
        fallback_y == IF page_number = 1 THEN Percent(Height, 15)
                      ELSE Percent(Height, 75)
    IN  [parsed |-> inner.parsed,
         clips |-> IF ~inner.raised
                   THEN inner.clips
                   ELSE IF textclip = "styled_fails"
                        THEN <<Layer("caption", fallback_y, 0, 0, FALSE, text,
                                     "black", FallbackFontSize, duration)>>
                        ELSE <<>>]

\* The list with the caption runs under the image
page_video_clips_text_first(page_data, image, textclip) ==
    LET duration == page_data.duration
        text_clips == create_positioned_text_clips(page_data.text, duration,
                                                   page_data, textclip).clips
    IN  text_clips \o <<create_default_background(duration)>>

\* The list `clips` of _create_page_video, lines 152-168
page_video_clips(page_data, image, textclip) ==
    LET duration == page_data.duration
        text == page_data.text
        white_bg == create_default_background(duration)
        generated_img_clip == create_page_specific_image_clip(
                                  image, duration, page_data.page_number)
        image_clips == IF image \notin {"absent", "missing"}
                          /\ generated_img_clip # NoClip
                       THEN <<generated_img_clip>> ELSE <<>>
        text_clips == IF text # <<>>
                      THEN create_positioned_text_clips(text, duration,
                                                        page_data, textclip).clips
                      ELSE <<>>
    IN  <<white_bg>> \o image_clips \o text_clips

\* Captions with the two markers, one with a blank highlight.
CmpTexts ==
    {<<"a">>,
     <<"=", "a", "=", "b">>,
     <<"#", "#", "a", "#", "#", "b">>,
     <<"a", "=", "#", "#", "b", "#", "#">>,
     <<"#", "#", "=", "#", "#", "a">>,
     <<"#", "#", " ", "#", "#", "a", "=">>}
MaxPageNumber == 3
CmpDurations == {2000, 3000}
CmpStarts == {0, 3000}

NoCompose == [made |-> FALSE, clip |-> [page |-> 0, start |-> 0, duration |-> 0],
              layers |-> <<>>, parsed |-> <<>>]
CmpIdle == [pc |-> "idle", page_data |-> create_page_data(<<>>, 0, 0, 0),
            image |-> "absent", textclip |-> "ok", start_time |-> 0,
            out |-> NoCompose]

\* The calls of _create_page_video considered.
CmpCalls ==
    {[pc |-> "call", page_data |-> create_page_data(t, n, d, n),
      image |-> i, textclip |-> tc, start_time |-> s, out |-> NoCompose] :
        t \in CmpTexts, n \in 1..MaxPageNumber, d \in CmpDurations,
        i \in ImageStates, tc \in TextClipOutcomes, s \in CmpStarts}

CmpInit == cmp \in CmpCalls

\* One call of _create_page_video(page_data, start_time)
ComposePage ==
    /\ cmp.pc = "call"
    /\ cmp' = [cmp EXCEPT
                 !.pc = "returned",
                 !.out = [made |-> TRUE,
                          clip |-> create_page_video(cmp.page_data, cmp.start_time),
                          layers |-> page_video_clips(cmp.page_data, cmp.image,
                                                      cmp.textclip),
                          parsed |-> create_positioned_text_clips(
                                         cmp.page_data.text, cmp.page_data.duration,
                                         cmp.page_data, cmp.textclip).parsed]]
    /\ UNCHANGED <<est, par, img, upl, run, lay, pc, config, pages, wav, pages_data, total_duration,
                   calls>>
    /\ UNCHANGED gvVars

(***************************************************************************)
(* Claims about the timeline and the mixer (Spec)                          *)
(***************************************************************************)
RECURSIVE SumDurations(_, _)
\* Sum of the durations of the first n records.
SumDurations(records, n) ==
    IF n = 0 THEN 0 ELSE SumDurations(records, n - 1) + records[n].duration

RECURSIVE SumClipDurations(_)
SumClipDurations(clips) ==
    IF clips = <<>> THEN 0 ELSE Head(clips).duration + SumClipDurations(Tail(clips))

\* generate_video has run its loop over every page and returned.
LoopDone == pc = "gv_returned" /\ gv_index > Len(pages_data)

\* Pages whose composition yielded no clip.
DroppedPages ==
    {k \in 1..Len(pages_data) :
        \A c \in 1..Len(video_clips) : video_clips[c].page # k}

RECURSIVE SumOver(_, _)
SumOver(records, S) ==
    IF S = {} THEN 0
    ELSE LET k == CHOOSE x \in S : TRUE
         IN  records[k].duration + SumOver(records, S \ {k})

\* End of the last narration: over the pages with an audio file, the largest
\* of (sum of the earlier pages' durations + length of the file).
LatestNarrationEnd ==
    LET ends == {SumDurations(pages_data, k - 1) + wav[k].duration :
                    k \in {j \in 1..Len(pages_data) : wav[j].exists}}
    IN  IF ends = {} THEN 0 ELSE CHOOSE e \in ends : \A x \in ends : x <= e

\* C1: every placed page clip and every placed narration track of page i
\* starts at the sum of the durations of pages 1..i-1, so the two of a page
\* start together.
C1_SameOffset ==
    /\ \A c \in 1..Len(video_clips) :
         video_clips[c].start
             = SumDurations(pages_data, video_clips[c].page - 1)
    /\ \A a \in 1..Len(audio_clips) :
         audio_clips[a].start
             = SumDurations(pages_data, audio_clips[a].page - 1)

\* C1 case: a page after the first has both its clip and its narration.
C1_Witness ==
    \E c \in 1..Len(video_clips), a \in 1..Len(audio_clips) :
        /\ video_clips[c].page = audio_clips[a].page
        /\ video_clips[c].page >= 2
        /\ video_clips[c].start > 0
        /\ audio_clips[a].start = video_clips[c].start

\* C2 as stated, on the renders that are written: once every page is
\* processed, the placed clips' durations sum to the total duration and
\* consecutive placed clips abut.
C2_ClipsFillTimeline ==
    (LoopDone /\ write = "done")
        => /\ SumClipDurations(video_clips)
                  = SumDurations(pages_data, Len(pages_data))
           /\ \A c \in 1..(Len(video_clips) - 1) :
                video_clips[c + 1].start
                    = video_clips[c].start + video_clips[c].duration

\* C2 amended: once every page is processed, the cursor, main's total and the
\* total handed to the mixer are the sum of the records' durations; the
\* placed clips' durations and the dropped pages' durations sum to it; and
\* between two consecutive placed clips lies exactly the time of the pages
\* dropped between them (none dropped: they abut; never an overlap).
C2_ClipsAndDropsFillTimeline ==
    LoopDone
        => /\ current_time = SumDurations(pages_data, Len(pages_data))
           /\ total_duration = current_time
           /\ final_audio.made => final_audio.total_duration = current_time
           /\ SumClipDurations(video_clips) + SumOver(pages_data, DroppedPages)
                  = current_time
           /\ \A c \in 1..(Len(video_clips) - 1) :
                LET x == video_clips[c]
                    y == video_clips[c + 1]
                IN  /\ x.page < y.page
                    /\ y.start >= x.start + x.duration
                    /\ y.start - (x.start + x.duration)
                         = SumOver(pages_data, (x.page + 1)..(y.page - 1))
                    /\ (x.page + 1)..(y.page - 1) \subseteq DroppedPages

\* C2 case: page 2 of three yields no clip, the render is written.
C2_Witness ==
    /\ LoopDone
    /\ Len(pages_data) = 3
    /\ Len(video_clips) = 2
    /\ DroppedPages = {2}
    /\ video_clips[2].start > video_clips[1].start + video_clips[1].duration
    /\ write = "done"

\* C3 as stated, on the renders that are written and whose audio files are
\* no longer than their pages: the master audio track is exactly
\* totalDuration long, with bgm and narration-only.
C3_MasterLengthIsTotal ==
    (/\ final_audio.made
     /\ write = "done"
     /\ \A k \in 1..Len(pages_data) :
          wav[k].exists => wav[k].duration <= pages_data[k].duration)
        => final_audio.duration = final_audio.total_duration

\* C3 amended: with bgm the master track is as long as the later of
\* totalDuration and the end of the last narration (so exactly totalDuration
\* when no narration runs past it); narration-only it ends with the last
\* narration.
C3_MasterLength ==
    final_audio.made
        => /\ final_audio.total_duration = SumDurations(pages_data, Len(pages_data))
           /\ final_audio.bgm
                => final_audio.duration
                       = Max(final_audio.total_duration, LatestNarrationEnd)
           /\ (final_audio.bgm /\ LatestNarrationEnd <= final_audio.total_duration)
                => final_audio.duration = final_audio.total_duration
           /\ ~final_audio.bgm => final_audio.duration = LatestNarrationEnd

\* C3 case: narration-only, the pages padded, the track shorter than the
\* timeline.
C3_Witness ==
    /\ final_audio.made
    /\ ~final_audio.bgm
    /\ config.duration_mode = "voice" /\ config.padding_seconds > 0
    /\ final_audio.duration < final_audio.total_duration
    /\ write = "done"

\* C4: a bgm that is mixed in is exactly totalDuration long after fitting; a
\* longer source is cut, a shorter one is repeated floor(total/len)+1 times,
\* which exceeds totalDuration, and cut.
C4_BgmFitted ==
    (final_audio.made /\ final_audio.bgm)
        => LET fit == final_audio.fit
               total == final_audio.total_duration
           IN  /\ fit.duration = total
               /\ fit.source > total => fit.loops = 1
               /\ fit.source < total
                    => /\ fit.loops = (total \div fit.source) + 1
                       /\ fit.loops * fit.source > total

\* C4 case: the 2 s source over a 10 s timeline, six copies.
C4_Witness ==
    /\ final_audio.made /\ final_audio.bgm
    /\ final_audio.total_duration = 10000
    /\ config.bgm.duration = 2000
    /\ final_audio.fit.loops = 6
    /\ final_audio.fit.duration = 10000

\* C5: with the bgm file missing or unreadable, the mixer returns a track of
\* every narration clip and no bgm, and generate_video goes on to write the
\* output: it fails only if writing does.
C5_BgmFailureTolerated ==
    (LoopDone /\ video_clips # <<>> /\ audio_clips # <<>>
         /\ ~(config.bgm.exists /\ config.bgm.readable))
        => /\ final_audio.made
           /\ ~final_audio.bgm
           /\ final_audio.narration = audio_clips
           /\ \A k \in 1..Len(pages_data) :
                wav[k].exists => \E a \in 1..Len(audio_clips) : audio_clips[a].page = k
           /\ write \in {"done", "failed"}
           /\ success = (write = "done")

\* C5 case: an unreadable bgm file, narration mixed alone, the file written.
C5_Witness ==
    /\ LoopDone
    /\ config.bgm.exists /\ ~config.bgm.readable
    /\ final_audio.made /\ ~final_audio.bgm
    /\ Len(final_audio.narration) >= 2
    /\ write = "done" /\ success = TRUE

(***************************************************************************)
(* Claims about the markup parser (SpecParse)                              *)
(***************************************************************************)
\* Some '##' is followed, after characters none of which is '#', by '##'.
HasMatchedPair(text) ==
    \E i \in 1..Len(text), j \in 1..Len(text) :
        /\ i + 2 <= j /\ j + 1 <= Len(text)
        /\ text[i] = "#" /\ text[i + 1] = "#"
        /\ text[j] = "#" /\ text[j + 1] = "#"
        /\ \A k \in (i + 2)..(j - 1) : text[k] # "#"

\* Index in the normal run of the o-th content character of the n-th match:
\* every earlier match lost its four marker characters, this one its first two.
NormalOffset(n, o) == par.out.red_matches[n].start - 4 * (n - 1) + (o - 1)

\* C6: a caption without a matched '##' pair yields exactly one run, in the
\* normal colour, whose text is the caption unchanged, and no highlighted run.
C6_NoPairSingleNormalRun ==
    (par.pc = "returned" /\ ~HasMatchedPair(par.text))
        => par.out.clips = <<[text |-> par.text, color |-> NormalColor]>>

\* C6 case: markers present, their content holds a '#', one unchanged run.
C6_Witness ==
    /\ par.pc = "returned"
    /\ par.text = <<"#", "#", "a", "#", "b", "#", "#">>
    /\ Len(par.out.clips) = 1

\* C7: with k >= 1 matched spans and both runs emitted, the runs have the same
\* length, the caption's length minus 4*k, and every highlighted character is
\* in the highlighted run at the offset of its blank in the normal run.
C7_RunsAligned ==
    (par.pc = "returned" /\ Len(par.out.clips) = 2)
        => LET k == Len(par.out.red_matches)
               normal == par.out.clips[1].text
               red == par.out.clips[2].text
           IN  /\ Len(normal) = Len(par.text) - 4 * k
               /\ Len(red) = Len(normal)
               /\ \A n \in 1..k :
                    \A o \in 1..Len(Group1(par.text, par.out.red_matches[n])) :
                        /\ NormalOffset(n, o) \in 1..Len(red)
                        /\ red[NormalOffset(n, o)]
                               = Group1(par.text, par.out.red_matches[n])[o]

\* C8: in the normal run every matched span's content is replaced by blanks of
\* equal length that keep each newline of the content, so the normal run has
\* the caption's line breaks.
C8_SpanNewlinesKept ==
    (par.pc = "returned" /\ par.out.red_matches # <<>>)
        => LET normal == par.out.clips[1].text
           IN  /\ \A n \in 1..Len(par.out.red_matches) :
                    \A o \in 1..Len(Group1(par.text, par.out.red_matches[n])) :
                        /\ NormalOffset(n, o) \in 1..Len(normal)
                        /\ normal[NormalOffset(n, o)]
                             = IF Group1(par.text, par.out.red_matches[n])[o] = "\n"
                               THEN "\n" ELSE " "
               /\ Count(normal, "\n") = Count(par.text, "\n")

\* C9 as stated: the normal run is always emitted, and the highlighted run is
\* emitted exactly when the highlighted text has a character other than ' '.
C9_HighlightIffNonSpace ==
    par.pc = "returned"
        => /\ Len(par.out.clips) \in {1, 2}
           /\ par.out.clips[1].color = NormalColor
           /\ (Len(par.out.clips) = 2
                 <=> \E k \in 1..Len(par.out.red_text_str) :
                         par.out.red_text_str[k] # " ")

\* C9 amended: the normal run is always emitted, first; the highlighted run is
\* emitted, second, exactly when the highlighted text has a character that is
\* not whitespace (a newline does not count).
C9_HighlightIffNonWhitespace ==
    par.pc = "returned"
        => /\ Len(par.out.clips) \in {1, 2}
           /\ par.out.clips[1] = [text |-> par.out.normal_text, color |-> NormalColor]
           /\ (Len(par.out.clips) = 2
                 <=> \E k \in 1..Len(par.out.red_text_str) :
                         par.out.red_text_str[k] \notin Whitespace)
           /\ (Len(par.out.clips) = 2
                 => par.out.clips[2] = [text |-> par.out.red_text_str,
                                        color |-> HighlightColor])

\* C9 case: an empty span after a line break; the highlighted text keeps the
\* newline, and the normal run is emitted alone.
C9_Witness ==
    /\ par.pc = "returned"
    /\ par.text = <<"a", "\n", "#", "#", "#", "#">>
    /\ par.out.red_text_str = <<" ", "\n", " ", " ", " ", " ">>
    /\ par.out.clips = <<[text |-> <<"a", "\n">>, color |-> NormalColor]>>

(***************************************************************************)
(* Claims about the duration estimator (SpecEstimate)                      *)
(***************************************************************************)
\* C10: for a text with a non-whitespace character the estimate lies in
\* [1.0/speed, 10.0/speed]; for an empty or whitespace-only text it is 0.5 s
\* whatever the speed.
C10_EstimateRange ==
    est.pc = "returned"
        => IF \E k \in 1..Len(est.text) : est.text[k] \notin Whitespace
           THEN /\ est.result * est.speed_scale >= 1000 * 10
                /\ est.result * est.speed_scale <= 10000 * 10
           ELSE est.result = 500

\* C10 case: thirty characters at speed 2.5, the estimate at the upper end.
C10_Witness ==
    /\ est.pc = "returned"
    /\ Len(est.text) = 30
    /\ est.speed_scale = 25
    /\ est.result = 4000

(***************************************************************************)
(* Claims about the page compositor (SpecCompose)                          *)
(***************************************************************************)
\* The caption layers _create_positioned_text_clips makes for the call in cmp.
CmpCaptions ==
    create_positioned_text_clips(cmp.page_data.text, cmp.page_data.duration,
                                 cmp.page_data, cmp.textclip).clips

\* C11: when the page's image path is absent, names no file, or names a file
\* that cannot be loaded, _create_page_video still returns a clip, and its
\* layers are the white background followed by the caption runs and nothing
\* else: no image layer.
C11_CaptionOnlyWithoutImage ==
    (cmp.pc = "returned" /\ cmp.image \in {"absent", "missing", "unloadable"}) =>
        /\ cmp.out.made
        /\ cmp.out.layers # <<>>
        /\ Head(cmp.out.layers) = create_default_background(cmp.page_data.duration)
        /\ Tail(cmp.out.layers) = CmpCaptions
        /\ \A k \in 1..Len(cmp.out.layers) : cmp.out.layers[k].kind # "image"

\* C11 case: an unloadable image under a caption with a highlight; the clip
\* has the background, the normal run and the red run.
C11_Witness ==
    /\ cmp.pc = "returned"
    /\ cmp.image = "unloadable"
    /\ cmp.out.made
    /\ Len(cmp.out.layers) = 3
    /\ cmp.out.layers[1].kind = "background"
    /\ cmp.out.layers[2].color = NormalColor
    /\ cmp.out.layers[3].color = HighlightColor

\* Where a layer belongs in the stack: background, image, normal caption run,
\* highlighted caption run.
LayerRank(layer) ==
    IF layer.kind = "background" THEN 0
    ELSE IF layer.kind = "image" THEN 1
    ELSE IF layer.color # HighlightColor THEN 2
    ELSE 3

\* C12: every clip _create_page_video returns has the full-canvas white
\* background as its first layer, with or without an image layer; then the
\* image if there is one; then the caption runs, the normal run before the
\* highlighted one; and the clip lasts exactly the record's duration.
C12_LayerOrderAndDuration ==
    (cmp.pc = "returned" /\ cmp.out.made) =>
        LET layers == cmp.out.layers
        IN  /\ layers # <<>>
            /\ layers[1] = create_default_background(cmp.page_data.duration)
            /\ layers[1].w = Width /\ layers[1].h = Height
            /\ \A k \in 2..Len(layers) : layers[k].kind \in {"image", "caption"}
            /\ \A j, k \in 1..Len(layers) :
                   j < k => LayerRank(layers[j]) < LayerRank(layers[k])
            /\ cmp.out.clip.duration = cmp.page_data.duration

\* C12 case: a loadable image under a caption with a highlight; four layers.
C12_Witness ==
    /\ cmp.pc = "returned"
    /\ cmp.image = "ok"
    /\ Len(cmp.out.layers) = 4
    /\ cmp.out.layers[1].kind = "background"
    /\ cmp.out.layers[2].kind = "image"
    /\ cmp.out.layers[3].color = NormalColor
    /\ cmp.out.layers[4].color = HighlightColor
    /\ cmp.out.clip.duration = 2000
    /\ cmp.page_data.duration = 2000

\* The position and size of a layer.
Geometry(layer) == <<layer.y, layer.w, layer.h, layer.pan>>

\* C13: the layout is a function of the page number alone.  Whatever else
\* differs between two calls for the same page number (caption, duration,
\* start, the image file, what TextClip does), their image layers have the
\* same position and size and their caption layers the same vertical anchor;
\* page 1 takes the first-page variant for the image and for the caption,
\* every later page the other variant for both.
C13_LayoutByPageNumberAlone ==
    cmp.pc = "returned" =>
        LET first == cmp.page_data.page_number = 1
        IN  /\ \A k \in 1..Len(cmp.out.layers) :
                   LET layer == cmp.out.layers[k]
                   IN  /\ layer.kind = "image" => (layer.pan <=> ~first)
                       /\ layer.kind = "caption" =>
                              (layer.y = Percent(Height, 15) <=> first)
            /\ \A other \in CmpCalls :
                   other.page_data.page_number = cmp.page_data.page_number =>
                       LET layers == page_video_clips(other.page_data, other.image,
                                                      other.textclip)
                       IN  \A j \in 1..Len(cmp.out.layers), k \in 1..Len(layers) :
                               cmp.out.layers[j].kind = layers[k].kind =>
                                   Geometry(cmp.out.layers[j]) = Geometry(layers[k])

RECURSIVE CountInLayers(_, _)
\* How many times ch occurs in the texts of the layers.
CountInLayers(layers, ch) ==
    IF layers = <<>> THEN 0
    ELSE Count(Head(layers).text, ch) + CountInLayers(Tail(layers), ch)

\* The caption runs the '##' parser makes of a text for the call in cmp.
ParserRuns(text) ==
    parse_and_create_colored_text(text, NormalColor, HighlightColor).clips

SynthResult(i) ==
    LET k == CHOOSE k \in 1..Len(calls) :
                 /\ calls[k].op = "synthesize_voice"
                 /\ calls[k].page = i
                 /\ calls[k].event = "return"
    IN  calls[k].result

\* C15: for every page whose speech synthesis failed (the audio query or the
\* synthesis request failed or raised), the record's duration is the
\* Estimator's value for the page's text (padded in voice mode), and the page
\* still has its record.
C15_FailedSynthesisUsesEstimator ==
    \A i \in 1..Len(pages_data) :
        SynthResult(i) \in {"silent", "failed"} =>
            pages_data[i].duration =
                PageDuration(estimate_audio_duration(pages[i], config.speed_scale),
                             config)

\* C16: when generate_video has returned, on whichever path, no media handle
\* it opened is still open: no page clip, no narration reader, no bgm reader.
C16_HandlesReleasedOnReturn ==
    pc = "gv_returned" => handles = {}

\* The calls of one loop iteration, in the order the claim gives.
PageOps == <<"translate_text", "generate_image", "synthesize_voice">>

\* The number of calls issued and not yet returned is 0 or 1 after every
\* entry of the record: counted from 0, that is the case exactly when the
\* entries alternate, a call at every odd place and its return at the next.
AtMostOneInFlight ==
    \A k \in 1..Len(calls) :
        calls[k].event = IF k % 2 = 1 THEN "call" ELSE "return"

\* C17: pages are processed in script order, one at a time.  The j-th call
\* issued is translation, image generation or speech synthesis, in that
\* order, for page 1, then the same three for page 2, and so on; each call
\* has returned before the next is issued, so never more than one is in
\* flight; generate_video is called once, after the last page's speech
\* synthesis has returned, and takes the pages in the same order.
C17_OnePageOneCallAtATime ==
    /\ AtMostOneInFlight
    /\ \A i \in 1..Len(pages_data) : \A m \in 1..3 :
           LET k == 6 * (i - 1) + 2 * m
           IN  /\ calls[k - 1] = CallEvent(PageOps[m], i, "call", "")
               /\ calls[k].op = PageOps[m]
               /\ calls[k].page = i
               /\ calls[k].event = "return"
    /\ Len(calls) - 6 * Len(pages_data) \in {0, 1, 2}
    /\ Len(calls) > 6 * Len(pages_data) =>
           /\ Len(pages_data) = Len(pages)
           /\ calls[6 * Len(pages) + 1] = CallEvent("generate_video", 0, "call", "")
    /\ Len(calls) = 6 * Len(pages_data) + 2 =>
           /\ calls[Len(calls)].op = "generate_video"
           /\ calls[Len(calls)].event = "return"
    /\ \A i \in 1..Len(pages_data) :
           /\ pages_data[i].page_number = i
           /\ pages_data[i].text = pages[i]
    /\ \A j, k \in 1..Len(video_clips) :
           j < k => video_clips[j].page < video_clips[k].page
    /\ pc \in {"gv_loop", "gv_returned"} <=> Len(calls) > 6 * Len(pages_data)

\* C17 case: three pages processed, then generate_video called as the
\* nineteenth call and at work on its second page.
C17_Witness ==
    /\ pc = "gv_loop"
    /\ Len(pages) = 3
    /\ Len(calls) = 19
    /\ calls[18] = CallEvent("synthesize_voice", 3, "return", "ok")
    /\ calls[19] = CallEvent("generate_video", 0, "call", "")
    /\ gv_index = 2

C20_DroppedPageOnlyDropped ==
    /\ \A k \in 1..Len(page_clip_made) :
           IF page_clip_made[k]
           THEN \E c \in 1..Len(video_clips) :
                    /\ video_clips[c].page = k
                    /\ video_clips[c].start = SumDurations(pages_data, k - 1)
                    /\ video_clips[c].duration = pages_data[k].duration
           ELSE k \in DroppedPages
    /\ (pc = "gv_loop" /\ gv_index <= Len(pages_data)) =>
           Len(page_clip_made) = gv_index - 1
    /\ (pc = "gv_returned" /\ config.moviepy /\ gv_index <= Len(pages_data)) =>
           LET file == wav[pages_data[gv_index].audio_path]
           IN  file.exists /\ ~file.readable
    /\ (pc = "gv_returned" /\ success = FALSE) =>
           \/ video_clips = <<>>
           \/ gv_index <= Len(pages_data)
           \/ write = "failed"

\* C20 case: the first of three pages yields no clip; the second and third
\* are placed at their offsets and generate_video returns True.
C20_Witness ==
    /\ LoopDone
    /\ page_clip_made = <<FALSE, TRUE, TRUE>>
    /\ Len(video_clips) = 2
    /\ video_clips[1].page = 2
    /\ video_clips[1].start = pages_data[1].duration
    /\ video_clips[2].page = 3
    /\ video_clips[2].start = pages_data[1].duration + pages_data[2].duration
    /\ success = TRUE
    /\ write = "done"

(***************************************************************************)
(* image_generator.py: generate_image.  What the network and the disk do   *)
(* is the environment's choice: how a request ends, whether a download or  *)
(* a save succeeds, and what status the replicate prediction has when it   *)
(* is polled.                                                              *)
(***************************************************************************)
Providers == {"fal.ai", "replicate", "other"}
RequestOutcomes == {"accepted", "refused", "raised"}
PendingStatuses == {"starting", "processing"}
FinalStatuses == {"succeeded", "failed", "canceled"}
MaxPolls == 3

ImageResult(result, file) == [result |-> result, file |-> file]

\* the placeholder reported as drawn whatever happened
placeholder_unsaved_true(saved) == ImageResult(TRUE, "none")

\* _create_placeholder_image: True once img.save has written the file
create_placeholder_image(saved) ==
    IF saved THEN ImageResult(TRUE, "placeholder") ELSE ImageResult(FALSE, "none")

\* _download_image: True once the response body is written to output_path
download_image(downloaded) ==
    IF downloaded THEN ImageResult(TRUE, "image") ELSE ImageResult(FALSE, "none")

\* _generate_with_fal: a 200 answer with a non-empty images list is downloaded
generate_with_fal(o, downloaded) ==
    IF o = "accepted" THEN download_image(downloaded) ELSE ImageResult(FALSE, "none")

\* the loop left after its first pass, whatever the status
poll_once(status, has_output, downloaded) ==
    IF status = "succeeded" /\ has_output
    THEN [done |-> TRUE, out |-> download_image(downloaded)]
    ELSE [done |-> TRUE, out |-> ImageResult(FALSE, "none")]

\* one pass of the while True loop of _generate_with_replicate, after the GET
replicate_poll(status, has_output, downloaded) ==
    IF status = "succeeded"
    THEN IF has_output
         THEN [done |-> TRUE, out |-> download_image(downloaded)]
         ELSE [done |-> TRUE, out |-> ImageResult(FALSE, "none")]
    ELSE IF status = "failed"
    THEN [done |-> TRUE, out |-> ImageResult(FALSE, "none")]
    ELSE IF status \in PendingStatuses
    THEN [done |-> FALSE, out |-> ImageResult(FALSE, "none")]
    ELSE [done |-> TRUE, out |-> ImageResult(FALSE, "none")]

\* generate_image's except branch: whatever the provider call raised, the
\* placeholder is drawn instead
image_fallback(saved) == create_placeholder_image(saved)

\* generate_image up to the provider's first answer: "returned" with a
\* result, or "polling" a replicate prediction
generate_image(api_key, provider, o, saved, downloaded) ==
    IF ~api_key
    THEN [pc |-> "returned", raised |-> FALSE, out |-> create_placeholder_image(saved)]
    ELSE IF provider = "fal.ai"
    THEN IF o = "raised"
         THEN [pc |-> "returned", raised |-> TRUE, out |-> image_fallback(saved)]
         ELSE [pc |-> "returned", raised |-> FALSE, out |-> generate_with_fal(o, downloaded)]
    ELSE IF provider = "replicate"
    THEN IF o = "raised"
         THEN [pc |-> "returned", raised |-> TRUE, out |-> image_fallback(saved)]
         ELSE IF o = "accepted"
         THEN [pc |-> "polling", raised |-> FALSE, out |-> ImageResult(FALSE, "none")]
         ELSE [pc |-> "returned", raised |-> FALSE, out |-> ImageResult(FALSE, "none")]
    ELSE [pc |-> "returned", raised |-> FALSE, out |-> create_placeholder_image(saved)]

ImgIdle ==
    [pc |-> "idle", api_key |-> FALSE, provider |-> "fal.ai", prediction |-> "none",
     has_output |-> FALSE, polls |-> 0, status |-> "none", raised |-> FALSE,
     file |-> "none", result |-> "pending"]

ImgInit ==
    img \in {[ImgIdle EXCEPT !.pc = "call", !.api_key = k, !.provider = p] :
                k \in BOOLEAN, p \in Providers}

\* generate_image is entered and runs to its return or to the polling loop
ImgCall ==
    /\ img.pc = "call"
    /\ \E o \in RequestOutcomes, saved \in BOOLEAN, downloaded \in BOOLEAN :
          LET g == generate_image(img.api_key, img.provider, o, saved, downloaded)
          IN  img' = [img EXCEPT !.pc = g.pc, !.raised = g.raised,
                                 !.result = IF g.pc = "returned" THEN g.out.result
                                            ELSE "pending",
                                 !.file = g.out.file,
                                 !.prediction = IF g.pc = "polling" THEN "starting"
                                                ELSE "none"]
    /\ UNCHANGED <<est, par, cmp, upl, run, lay, pc, config, pages, wav, pages_data,
                   total_duration, calls>>
    /\ UNCHANGED gvVars

\* the prediction moves on at replicate, whatever the client does
PredictionAdvance ==
    /\ img.pc = "polling"
    /\ \/ /\ img.prediction = "starting"
          /\ img' = [img EXCEPT !.prediction = "processing"]
       \/ /\ img.prediction \in PendingStatuses
          /\ \E s \in FinalStatuses, has_output \in BOOLEAN :
                /\ (has_output => s = "succeeded")
                /\ img' = [img EXCEPT !.prediction = s, !.has_output = has_output]
    /\ UNCHANGED <<est, par, cmp, upl, run, lay, pc, config, pages, wav, pages_data,
                   total_duration, calls>>
    /\ UNCHANGED gvVars

\* one pass of the polling loop: sleep, GET, look at the status.  A pass
\* that finds the prediction pending is counted, up to MaxPolls of them.
ImgPoll ==
    /\ img.pc = "polling"
    /\ img.polls < MaxPolls \/ img.prediction \notin PendingStatuses
    /\ \E answered \in BOOLEAN, saved \in BOOLEAN, downloaded \in BOOLEAN :
          IF answered
          THEN LET r == replicate_poll(img.prediction, img.has_output, downloaded)
               IN  img' = [img EXCEPT !.status = img.prediction,
                                      !.polls = IF r.done THEN @ ELSE @ + 1,
                                      !.pc = IF r.done THEN "returned" ELSE "polling",
                                      !.result = IF r.done THEN r.out.result ELSE "pending",
                                      !.file = r.out.file]
          ELSE LET f == image_fallback(saved)
               IN  img' = [img EXCEPT !.raised = TRUE, !.pc = "returned",
                                      !.result = f.result, !.file = f.file]
    /\ UNCHANGED <<est, par, cmp, upl, run, lay, pc, config, pages, wav, pages_data,
                   total_duration, calls>>
    /\ UNCHANGED gvVars

(***************************************************************************)
(* main.py: one run of main from the creation of the temp directory to its *)
(* end, one component call at a time.  How each component call ends is the *)
(* environment's choice; what main does with the result is the code's.     *)
(***************************************************************************)
MaxRunPages == 2

TranslateOutcomes == {"no_key", "translated", "request_error", "other_error"}

\* translate_text without its last except clause
translate_text_uncaught(o) ==
    [propagates |-> o = "other_error",
     prompt |-> IF o = "translated" THEN "translated" ELSE "original"]

\* translate_text: without a key, or on any exception, the page text itself
\* is the prompt
translate_text(o) ==
    [propagates |-> FALSE,
     prompt |-> IF o = "translated" THEN "translated" ELSE "original"]

\* every result generate_image can return
ImageReturns ==
    {generate_image(k, p, o, s, d).out :
        k \in BOOLEAN, p \in Providers, o \in RequestOutcomes, s \in BOOLEAN, d \in BOOLEAN}
    \cup {replicate_poll(st, h, d).out :
             st \in FinalStatuses, h \in BOOLEAN, d \in BOOLEAN}
    \cup {image_fallback(s) : s \in BOOLEAN}

RunEvents == {"none", "interrupt", "exception"}

PageRecord(page_number, image, narrated) ==
    [page_number |-> page_number, image |-> image, narrated |-> narrated]

RunIdle ==
    [pc |-> "idle", n_pages |-> 0, upload |-> FALSE, keep_temp_files |-> FALSE,
     moviepy |-> TRUE, temp_dir |-> FALSE, uploader |-> FALSE, records |-> <<>>,
     failed |-> {}, gv_args |-> <<>>, success |-> "pending", video_file |-> FALSE,
     uploads |-> 0, video_id |-> "pending", warned |-> FALSE, completed |-> FALSE,
     cause |-> "none", exit |-> "running"]

\* lines 129-133 are done: the temp directory exists
RunInit ==
    run \in {[RunIdle EXCEPT !.pc = "init_generators", !.temp_dir = TRUE, !.n_pages = n,
                             !.upload = u, !.keep_temp_files = k, !.moviepy = m] :
                n \in 1..MaxRunPages, u \in BOOLEAN, k \in BOOLEAN, m \in BOOLEAN}

RunUnchanged ==
    /\ UNCHANGED <<est, par, cmp, img, upl, lay, pc, config, pages, wav, pages_data,
                   total_duration, calls>>
    /\ UNCHANGED gvVars

\* lines 136-138, before the try statement: a constructor that raises ends
\* main there
MainInitGenerators ==
    /\ run.pc = "init_generators"
    /\ \E ok \in BOOLEAN :
          run' = IF ok THEN [run EXCEPT !.pc = "init_uploader"]
                 ELSE [run EXCEPT !.pc = "ended", !.exit = "raised", !.cause = "init"]
    /\ RunUnchanged

AuthOutcomes == {"authenticated", "refused", "raised"}

\* lines 141-146, before the try statement
MainInitUploader ==
    /\ run.pc = "init_uploader"
    /\ IF ~run.upload
       THEN run' = [run EXCEPT !.pc = "loop"]
       ELSE \E o \in AuthOutcomes :
               run' = IF o = "raised"
                      THEN [run EXCEPT !.pc = "ended", !.exit = "raised", !.cause = "init"]
                      ELSE [run EXCEPT !.pc = "loop", !.uploader = (o = "authenticated")]
    /\ RunUnchanged

\* the except clauses of lines 226-229 lead to the finally clause
LeaveTry(r, cause) == [r EXCEPT !.pc = "finally", !.cause = cause]

\* one pass of the page loop, lines 153-195
MainPage ==
    /\ run.pc = "loop"
    /\ Len(run.records) < run.n_pages
    /\ \E event \in RunEvents, t \in TranslateOutcomes, im \in ImageReturns,
          sp \in SynthOutcomes :
          LET i == Len(run.records) + 1
              tr == translate_text(t)
              sy == synthesize_voice(ScriptText(i), sp)
              failures == (IF t \in {"request_error", "other_error"}
                           THEN {"translation"} ELSE {})
                          \cup (IF im.result THEN {} ELSE {"image"})
                          \cup (IF sy.success THEN {} ELSE {"speech"})
          IN  run' = IF event # "none" THEN LeaveTry(run, event)
                     ELSE IF tr.propagates THEN LeaveTry(run, "component")
                     ELSE [run EXCEPT
                              !.records = Append(@, PageRecord(i, im.result, sy.success)),
                              !.failed = @ \cup failures]
    /\ RunUnchanged

RenderOutcomes == {"written", "failed", "interrupt"}

\* lines 197-202: generate_video is called with the records; it catches
\* every exception of the render itself and returns True only with the file
\* written
MainRender ==
    /\ run.pc = "loop"
    /\ Len(run.records) = run.n_pages
    /\ \E o \in RenderOutcomes :
          LET written == o = "written"
              ok == IF run.moviepy THEN written ELSE create_placeholder_video(written)
              called == [run EXCEPT !.gv_args = Append(@, run.records)]
          IN  run' = IF o = "interrupt" THEN LeaveTry(called, "interrupt")
                     ELSE [called EXCEPT !.pc = "rendered", !.success = ok,
                                         !.video_file = ok]
    /\ RunUnchanged

UploadOutcomes == {"id", "none", "interrupt"}

\* the upload decided by the uploader alone
upload_wanted_without_render(r) == r.uploader

\* lines 204 and 208: the guards of the upload
upload_wanted(r) == r.success = TRUE /\ r.uploader /\ r.video_file

\* lines 204-224: upload_video catches every exception and returns the video
\* id or None
MainUpload ==
    /\ run.pc = "rendered"
    /\ IF upload_wanted(run)
       THEN \E o \in UploadOutcomes :
               LET called == [run EXCEPT !.uploads = @ + 1]
               IN  run' = IF o = "interrupt" THEN LeaveTry(called, "interrupt")
                          ELSE [called EXCEPT !.pc = "finally", !.completed = TRUE,
                                              !.video_id = o, !.warned = (o = "none")]
       ELSE run' = [run EXCEPT !.pc = "finally", !.completed = (run.success = TRUE)]
    /\ RunUnchanged

\* lines 232-235: whether the temp directory exists after the finally clause
cleanup(keep_temp_files, temp_dir) ==
    IF ~keep_temp_files THEN FALSE ELSE temp_dir

\* lines 230-236
MainFinally ==
    /\ run.pc = "finally"
    /\ run' = [run EXCEPT !.pc = "ended", !.exit = "returned",
                          !.temp_dir = cleanup(run.keep_temp_files, run.temp_dir)]
    /\ RunUnchanged

(***************************************************************************)
(* youtube_uploader.py: _resumable_upload.  How each next_chunk call ends  *)
(* is the environment's choice.                                            *)
(***************************************************************************)
MaxRetries == 3
MaxChunks == 2
RetriableStatuses == {500, 502, 503, 504}
HttpStatuses == {400, 403, 500, 501, 502, 503, 504}
ChunkOutcomes ==
    {[kind |-> k, status |-> 0] :
        k \in {"progress", "response_with_id", "response_without_id", "exception"}}
    \cup {[kind |-> "http_error", status |-> c] : c \in HttpStatuses}

RECURSIVE Pow2(_)
Pow2(k) == IF k = 0 THEN 1 ELSE 2 * Pow2(k - 1)

\* a fixed wait between the attempts
backoff_fixed(retry) == 2

\* line 222: time.sleep(2 ** retry), in seconds
backoff(retry) == Pow2(retry)

\* line 212: e.resp.status in [500, 502, 503, 504]
retriable(status) == status \in RetriableStatuses

UplIdle ==
    [pc |-> "idle", retry |-> 0, chunks |-> 0, calls |-> 0, errors |-> <<>>,
     sleeps |-> <<>>, last |-> "none", result |-> "pending"]

UplInit == upl = [UplIdle EXCEPT !.pc = "loop"]

\* one pass of `while response is None` (lines 200-229) under outcome o
resumable_upload_step(u, o) ==
    LET called == [u EXCEPT !.calls = @ + 1, !.last = o.kind]
    IN  IF o.kind = "progress"
        THEN [called EXCEPT !.chunks = @ + 1]
        ELSE IF o.kind = "response_with_id"
        THEN [called EXCEPT !.pc = "returned", !.result = "response"]
        ELSE IF o.kind = "response_without_id"
        THEN [called EXCEPT !.pc = "returned", !.result = "none"]
        ELSE IF o.kind = "http_error" /\ retriable(o.status)
        THEN LET retry == u.retry + 1
                 seen == [called EXCEPT !.retry = retry, !.errors = Append(@, o.status)]
             IN  IF retry > MaxRetries
                 THEN [seen EXCEPT !.pc = "returned", !.result = "none"]
                 ELSE [seen EXCEPT !.sleeps = Append(@, backoff(retry))]
        ELSE [called EXCEPT !.pc = "returned", !.result = "none",
                            !.errors = IF o.kind = "http_error"
                                       THEN Append(@, o.status) ELSE @]

\* next_chunk is called once more; an upload reports progress without a
\* response at most MaxChunks times
NextChunk ==
    /\ upl.pc = "loop"
    /\ \E o \in ChunkOutcomes :
          /\ o.kind = "progress" => upl.chunks < MaxChunks
          /\ upl' = resumable_upload_step(upl, o)
    /\ UNCHANGED <<est, par, cmp, img, run, lay, pc, config, pages, wav, pages_data,
                   total_duration, calls>>
    /\ UNCHANGED gvVars

\* C27: next_chunk is called again only after progress or after an HTTP
\* 500/502/503/504 error; such errors are retried at most 3 times over the
\* whole upload, the counter never being reset, with 2^k seconds slept before
\* the k-th retry; the 4th such error, any other HTTP error, any other
\* exception and a response without 'id' return None, and a response is
\* returned only when it has 'id'.
C27_BoundedRetries ==
    /\ Len(upl.sleeps) <= MaxRetries
    /\ \A k \in 1..Len(upl.sleeps) : upl.sleeps[k] = Pow2(k)
    /\ upl.calls = upl.chunks + Len(upl.sleeps) + (IF upl.pc = "returned" THEN 1 ELSE 0)
    /\ upl.pc = "loop"
          => /\ upl.retry = Len(upl.errors)
             /\ upl.retry = Len(upl.sleeps)
             /\ \A k \in 1..Len(upl.errors) : upl.errors[k] \in RetriableStatuses
    /\ upl.pc = "returned"
          => /\ upl.result = "response" <=> upl.last = "response_with_id"
             /\ upl.result = "none"
                   <=> \/ upl.last \in {"response_without_id", "exception"}
                       \/ /\ upl.last = "http_error"
                          /\ \/ upl.errors[Len(upl.errors)] \notin RetriableStatuses
                             \/ upl.retry = MaxRetries + 1

\* the 4th retriable error ends an upload that made progress in between
C27_Witness ==
    /\ upl.pc = "returned"
    /\ upl.result = "none"
    /\ upl.retry = 4
    /\ upl.sleeps = <<2, 4, 8>>
    /\ upl.chunks = 2
    /\ upl.errors = <<503, 500, 504, 502>>

(***************************************************************************)
(* The first page's image on canvases of other sizes (width and height are *)
(* VideoGenerator's configuration, lines 49-50)                            *)
(***************************************************************************)
LayWidths == {1, 9, 40, 100, 720, 1080, 4000}
LayHeights == {1, 10, 170, 480, 1280, 1920}

LayIdle ==
    [pc |-> "idle", width |-> 0, height |-> 0, hair |-> 0, side |-> 0, top |-> 0,
     left2 |-> 0]

LayInit ==
    lay \in {[LayIdle EXCEPT !.pc = "call", !.width = w, !.height = h, !.hair = e] :
                w \in LayWidths, h \in LayHeights, e \in {0, 1}}

\* lines 325-331 for page 1.  'center' puts the image's left edge at
\* (width - side) / 2; left2 is twice that, which is a whole number.
PlaceFirstPageImage ==
    /\ lay.pc = "call"
    /\ lay' = [lay EXCEPT !.pc = "placed",
                          !.side = first_page_image_side(lay.width),
                          !.top = first_page_image_top(lay.width, lay.height, lay.hair),
                          !.left2 = lay.width - first_page_image_side(lay.width)]
    /\ UNCHANGED <<est, par, cmp, img, upl, run, pc, config, pages, wav, pages_data,
                   total_duration, calls>>
    /\ UNCHANGED gvVars

Abs(n) == IF n >= 0 THEN n ELSE -n

\* C22: on page 1 the image is a square of side int(0.55 * width), centred
\* horizontally, with its top edge at int(0.7 * height - side / 2); its
\* vertical midpoint, top + side / 2, is within one pixel of 70% of the
\* canvas height on every canvas (compared in tenths of a pixel).
C22_FirstPageImageCentredOnAnchor ==
    lay.pc = "placed"
        => /\ 100 * lay.side <= 55 * lay.width
           /\ 55 * lay.width < 100 * (lay.side + 1)
           /\ lay.left2 = lay.width - lay.side
           /\ Abs(100 * lay.top - (70 * lay.height - 50 * lay.side)) < 100 + lay.hair
           /\ Abs(10 * (2 * lay.top + lay.side) - 14 * lay.height) <= 20

\* a canvas where the floating product falls short of a whole number: the
\* midpoint is a full pixel above the anchor line
C22_Witness ==
    /\ lay.pc = "placed"
    /\ lay.width = 40
    /\ lay.height = 170
    /\ lay.hair = 1
    /\ lay.side = 22
    /\ lay.top = 107


(***************************************************************************)
(* Claims about one run of main (SpecMain)                                 *)
(***************************************************************************)
\* C21: no failure of translation, image generation or speech synthesis for
\* a page leaves its component or stops main: the page and every later page
\* get a record, and generate_video is called exactly once, with one record
\* per script page in script order.  Only an interrupt or an error outside
\* the three components ends the loop early.
C21_FailuresStayInsideComponents ==
    /\ run.cause # "component"
    /\ Len(run.records) <= run.n_pages
    /\ \A k \in 1..Len(run.records) : run.records[k].page_number = k
    /\ Len(run.gv_args) <= 1
    /\ (run.pc = "loop" /\ run.cause = "none") => run.gv_args = <<>>
    /\ run.gv_args # <<>>
          => (run.gv_args = <<run.records>> /\ Len(run.records) = run.n_pages)
    /\ (run.pc \in {"rendered", "finally", "ended"} /\ run.cause = "none")
          => Len(run.gv_args) = 1

C21_Witness ==
    /\ run.pc = "ended"
    /\ run.cause = "none"
    /\ run.n_pages = 2
    /\ run.failed = {"translation", "image", "speech"}
    /\ ~run.records[1].image
    /\ ~run.records[1].narrated
    /\ Len(run.gv_args) = 1
    /\ Len(run.gv_args[1]) = 2

(***************************************************************************)
(* Claims about generate_image (SpecImage)                                 *)
(***************************************************************************)
\* C23: whenever generate_image returns True, an image file was written at
\* the requested output path during that call, either the downloaded image
\* or the placeholder; a False return is the only one without a file.
C23_TrueMeansFileWritten ==
    /\ img.pc = "returned"
          => /\ img.result \in BOOLEAN
             /\ img.result => img.file \in {"image", "placeholder"}
    /\ img.file = "image" => (img.api_key /\ img.provider \in {"fal.ai", "replicate"})

C23_Witness ==
    /\ img.pc = "returned"
    /\ img.result = TRUE
    /\ img.provider = "replicate"
    /\ img.raised
    /\ img.file = "placeholder"

(***************************************************************************)
(* Claims about the mixer and the placeholder render (Spec)                *)
(***************************************************************************)
BgmInMaster == pc = "gv_returned" /\ final_audio.made /\ final_audio.bgm

\* C24 as stated: whenever the bgm source is resolvable, its first 3 seconds
\* are skipped before it is fitted to the total duration, whatever its length.
C24_LeadInAlwaysSkipped ==
    BgmInMaster => final_audio.fit.source = config.bgm.duration - BgmLeadInMs

\* C24: a resolvable bgm source longer than 3 seconds loses its first 3
\* seconds before it is fitted to the total duration; a source that is not
\* longer than 3 seconds is fitted from its first sample.
C24_LeadInSkippedWhenLonger ==
    BgmInMaster
        => /\ config.bgm.duration > BgmLeadInMs
                => final_audio.fit.source = config.bgm.duration - BgmLeadInMs
           /\ config.bgm.duration <= BgmLeadInMs
                => final_audio.fit.source = config.bgm.duration
           /\ final_audio.fit.source > 0
           /\ final_audio.fit = FitBgm(final_audio.fit.source, total_duration)

C24_Witness ==
    /\ BgmInMaster
    /\ config.bgm.duration = 2000
    /\ final_audio.fit.source = 2000
    /\ final_audio.fit.loops >= 2
    /\ success = TRUE

NoPageHasAudioFile == \A k \in 1..Len(wav) : ~wav[k].exists

\* C25: the bgm is mixed only under narration.  When no page has an audio
\* file the mixer is not invoked, the bgm file is not opened and the render
\* carries no audio track, even with a resolvable bgm file configured.
C25_NoNarrationNoAudio ==
    /\ (pc = "gv_returned" /\ NoPageHasAudioFile)
          => /\ audio_clips = <<>>
             /\ final_audio = NoAudio
             /\ Handle("bgm", 0) \notin handles
    /\ final_audio.made => (audio_clips # <<>> /\ final_audio.narration = audio_clips)

C25_Witness ==
    /\ pc = "gv_returned"
    /\ NoPageHasAudioFile
    /\ Len(pages) = 2
    /\ config.bgm.exists
    /\ config.bgm.readable
    /\ write = "done"
    /\ success = TRUE
    /\ final_audio = NoAudio

\* C26: upload_video is called at most once in a run, and only after
\* generate_video returned True, with the output file there, --upload given
\* and authenticate() succeeded; a failed render or a failed authentication
\* is never followed by an upload, and a failed upload leaves the run as a
\* successful one, with a warning logged.
C26_UploadOnlyAfterRender ==
    /\ run.uploads <= 1
    /\ run.uploader => run.upload
    /\ run.uploads = 1
          => /\ Len(run.gv_args) = 1
             /\ run.success = TRUE
             /\ run.video_file
             /\ run.upload
             /\ run.uploader
    /\ (run.pc = "ended" /\ run.uploads = 1 /\ run.cause = "none")
          => /\ run.completed
             /\ run.exit = "returned"
             /\ run.warned <=> run.video_id = "none"
    /\ (run.pc = "ended" /\ run.uploads = 0) => ~run.warned

C26_Witness ==
    /\ run.pc = "ended"
    /\ run.uploads = 1
    /\ run.video_id = "none"
    /\ run.warned
    /\ run.completed
    /\ run.success = TRUE
    /\ ~run.moviepy

\* C28: once the temp directory is created, it is gone when main ends, on
\* every path (render success or failure, exception in the page loop,
\* keyboard interrupt, failure while the generators or the uploader are
\* initialised), unless keep_temp_files is set, and then it is still there.
C28_TempDirRemovedOnEveryPath ==
    run.pc = "ended" => (run.temp_dir <=> run.keep_temp_files)

Polled == img.prediction # "none"

C29_PollingSafety ==
    /\ img.pc = "polling"
          => /\ img.provider = "replicate"
             /\ img.status \in PendingStatuses \cup {"none"}
             /\ ~img.raised
    /\ (img.pc = "returned" /\ Polled)
          => /\ img.raised \/ img.status \in FinalStatuses
             /\ ~img.raised
                   => /\ img.status = img.prediction
                      /\ img.result
                            <=> (img.status = "succeeded" /\ img.has_output
                                    /\ img.file = "image")
             /\ img.raised => (img.result <=> img.file = "placeholder")

C30_PlaceholderRender ==
    (pc = "gv_returned" /\ ~config.moviepy)
        => /\ page_clip_made = <<>>
           /\ video_clips = <<>>
           /\ audio_clips = <<>>
           /\ final_audio = NoAudio
           /\ handles = {}
           /\ success \in BOOLEAN
           /\ success <=> write = "placeholder"
           /\ write \in {"placeholder", "none"}

\* C30 case: three page records, none with an audio file, and the placeholder
\* written: generate_video returns True
C30_Witness ==
    /\ pc = "gv_returned"
    /\ ~config.moviepy
    /\ Len(pages_data) = 3
    /\ NoPageHasAudioFile
    /\ write = "placeholder"
    /\ success = TRUE

vars == <<est, par, cmp, img, upl, run, lay, pc, config, pages, wav, pages_data, total_duration, calls,
          gv_index, page_clip_made, video_clips, audio_clips, current_time, final_audio, write,
          success, handles>>

OthersIdle == img = ImgIdle /\ upl = UplIdle /\ run = RunIdle /\ lay = LayIdle

Init == PipelineInit /\ est = EstIdle /\ par = ParIdle /\ cmp = CmpIdle /\ OthersIdle
Next == ProcessPage \/ CallGenerateVideo \/ GvPlaceholder \/ GvPage \/ GvFinish
Spec == Init /\ [][Next]_vars

EstimateInit == EstInit /\ par = ParIdle /\ cmp = CmpIdle /\ PipelineIdle /\ OthersIdle
EstimateNext == Estimate
SpecEstimate == EstimateInit /\ [][EstimateNext]_vars

ParseInit == ParInit /\ est = EstIdle /\ cmp = CmpIdle /\ PipelineIdle /\ OthersIdle
ParseNext == Parse
SpecParse == ParseInit /\ [][ParseNext]_vars

ComposeInit == CmpInit /\ est = EstIdle /\ par = ParIdle /\ PipelineIdle /\ OthersIdle
ComposeNext == ComposePage
SpecCompose == ComposeInit /\ [][ComposeNext]_vars

ImageInit ==
    /\ ImgInit /\ est = EstIdle /\ par = ParIdle /\ cmp = CmpIdle /\ PipelineIdle
    /\ upl = UplIdle /\ run = RunIdle /\ lay = LayIdle
ImageNext == ImgCall \/ PredictionAdvance \/ ImgPoll
SpecImage == ImageInit /\ [][ImageNext]_vars
\* the client is scheduled: a call or a poll that can run does run.  The
\* prediction itself is under no obligation to move.
FairSpecImage == SpecImage /\ WF_vars(ImgCall) /\ WF_vars(ImgPoll)


MainInit ==
    /\ RunInit /\ est = EstIdle /\ par = ParIdle /\ cmp = CmpIdle /\ PipelineIdle
    /\ img = ImgIdle /\ upl = UplIdle /\ lay = LayIdle
MainNext ==
    MainInitGenerators \/ MainInitUploader \/ MainPage \/ MainRender \/ MainUpload
    \/ MainFinally
SpecMain == MainInit /\ [][MainNext]_vars


LayoutInit ==
    /\ LayInit /\ est = EstIdle /\ par = ParIdle /\ cmp = CmpIdle /\ PipelineIdle
    /\ img = ImgIdle /\ upl = UplIdle /\ run = RunIdle
LayoutNext == PlaceFirstPageImage
SpecLayout == LayoutInit /\ [][LayoutNext]_vars


UploadInit ==
    /\ UplInit /\ est = EstIdle /\ par = ParIdle /\ cmp = CmpIdle /\ PipelineIdle
    /\ img = ImgIdle /\ run = RunIdle /\ lay = LayIdle
UploadNext == NextChunk
SpecUpload == UploadInit /\ [][UploadNext]_vars

====
